---- MODULE Spec2Model ----
(***************************************************************************)
(* Model of registration_refactor.py, part B (the SOLID refactor):         *)
(* StudentRegistration, SksLimitRule, PrerequisiteRule, JadwalBentrokRule  *)
(* and RegistrationService.register.                                       *)
(*                                                                         *)
(* Python objects are passed by reference, so every validate operator      *)
(* returns, next to its (ok, msg) tuple, the rule object and the request   *)
(* object as the call leaves them.  Strings built by f-strings are         *)
(* sequences of their literal and formatted parts.                         *)
(***************************************************************************)
EXTENDS Integers, Sequences, FiniteSets, TLC

VARIABLES
    injected,   \* constructor arguments the caller passed, one per rule
    rules,      \* RegistrationService.rules: the constructed rule objects
    rules0,     \* the rule objects as they were right after construction
    reg,        \* the StudentRegistration of the current register call
    reg0,       \* the caller's copy of that request, taken at the call
    pc,         \* "idle" | "loop" | "done": position inside register
    idx,        \* position of the for-loop of register in self.rules
    calls,      \* validate calls made in this register call, with outcome
    log,        \* lines printed in this register call
    result,     \* the tuple register returned
    memo        \* one earlier finished call: its request and its outcome

vars == <<injected, rules, rules0, reg, reg0, pc, idx, calls, log, result, memo>>

----------------------------------------------------------------------------
(* Bounds and input sets *)

MaxRequested == 2

DefaultMaxSks == 24

Courses == {"CS101", "CS201", "MA101"}

SeqsUpTo(S, n) == UNION {[1..k -> S] : k \in 0..n}

None == [some |-> FALSE]

Some(v) == [some |-> TRUE, val |-> v]

EmptyMap == [c \in {} |-> ""]

----------------------------------------------------------------------------
(* The request *)

StudentRegistration(cur, req, completed, requested, schedule) ==
    [student_id        |-> "S002",
     name              |-> "Budi",
     current_sks       |-> cur,
     requested_sks     |-> req,
     completed_courses |-> completed,
     requested_courses |-> requested,
     schedule          |-> schedule]

Requests ==
    {StudentRegistration(cur, 6, completed, requested, schedule) :
        cur \in {18, 20},
        completed \in {<<>>, <<"CS101">>, <<"MA101">>},
        requested \in SeqsUpTo(Courses, MaxRequested),
        schedule \in {<<>>, <<"Wed-10">>}}

HistRequests ==
    {r \in Requests : r.current_sks = 18 /\ r.completed_courses = <<"CS101">>}

NoReg == StudentRegistration(0, 0, <<>>, <<>>, <<>>)

----------------------------------------------------------------------------
(* Python helpers *)

InList(x, list) == \E i \in 1..Len(list) : list[i] = x

ListToSet(list) == {list[i] : i \in 1..Len(list)}

\* dict.get(key, default)
DictGet(d, key, default) == IF key \in DOMAIN d THEN d[key] ELSE default

\* `x or default` on an optional list or dict: None and the empty container
\* are both falsy
PyOr(x, default) ==
    IF x.some /\ DOMAIN x.val # {} THEN x.val ELSE default

Tuple(ok, msg, self, r) == [ok |-> ok, msg |-> msg, self |-> self, reg |-> r]

----------------------------------------------------------------------------
(* Rule 1: SksLimitRule *)

SksLimitRule_init(max_sks) == [kind |-> "SksLimitRule", max_sks |-> max_sks]

SksMessage(max_sks) ==
    <<"Gagal: Melebihi batas SKS (max ", ToString(max_sks), ").">>

SksLimitRule_validate_Inclusive(self, r) ==
    IF r.current_sks + r.requested_sks >= self.max_sks
    THEN Tuple(FALSE, SksMessage(self.max_sks), self, r)
    ELSE Tuple(TRUE, <<>>, self, r)

SksLimitRule_validate(self, r) ==
    IF r.current_sks + r.requested_sks > self.max_sks
    THEN Tuple(FALSE, SksMessage(self.max_sks), self, r)
    ELSE Tuple(TRUE, <<>>, self, r)

----------------------------------------------------------------------------
(* Rule 2: PrerequisiteRule *)

PrerequisiteRule_init(prereq_map) ==
    [kind |-> "PrerequisiteRule", prereq_map |-> prereq_map]

PrereqMessage(req, course) ==
    <<"Gagal: Prasyarat ", req, " belum terpenuhi untuk ", course, ".">>

\* the two nested for-loops: position i in requested_courses, j in required
RECURSIVE PrereqLoop(_, _, _, _)
PrereqLoop(self, r, i, j) ==
    IF i > Len(r.requested_courses) THEN Tuple(TRUE, <<>>, self, r)
    ELSE LET course   == r.requested_courses[i]
             required == DictGet(self.prereq_map, course, <<>>)
         IN  IF j > Len(required) THEN PrereqLoop(self, r, i + 1, 1)
             ELSE IF ~InList(required[j], r.completed_courses)
                  THEN Tuple(FALSE, PrereqMessage(required[j], course), self, r)
                  ELSE PrereqLoop(self, r, i, j + 1)

\* the loops with the inner one run over the prerequisite list backwards
RECURSIVE PrereqLoop_Reversed(_, _, _, _)
PrereqLoop_Reversed(self, r, i, j) ==
    IF i > Len(r.requested_courses) THEN Tuple(TRUE, <<>>, self, r)
    ELSE LET course   == r.requested_courses[i]
             required == DictGet(self.prereq_map, course, <<>>)
             k        == Len(required) + 1 - j
         IN  IF j > Len(required) THEN PrereqLoop_Reversed(self, r, i + 1, 1)
             ELSE IF ~InList(required[k], r.completed_courses)
                  THEN Tuple(FALSE, PrereqMessage(required[k], course), self, r)
                  ELSE PrereqLoop_Reversed(self, r, i, j + 1)

PrerequisiteRule_validate_Reversed(self, r) == PrereqLoop_Reversed(self, r, 1, 1)

PrerequisiteRule_validate(self, r) == PrereqLoop(self, r, 1, 1)

----------------------------------------------------------------------------
(* Rule 3: JadwalBentrokRule *)

DefaultCourseSlotMap ==
    [c \in {"CS101", "CS102", "CS201", "MA101"} |->
        CASE c = "CS101" -> "Mon-09"
          [] c = "CS102" -> "Tue-11"
          [] c = "CS201" -> "Mon-09"
          [] c = "MA101" -> "Wed-10"]

JadwalBentrokRule_init(existing_schedule, course_slot_map) ==
    [kind              |-> "JadwalBentrokRule",
     existing_schedule |-> PyOr(existing_schedule, <<>>),
     course_slot_map   |-> PyOr(course_slot_map, DefaultCourseSlotMap)]

JadwalMessage(course, slot) ==
    <<"Gagal: Jadwal bentrok untuk ", course, " pada slot ", slot, ".">>

\* the for-loop over requested_courses; occupied is the local set
RECURSIVE JadwalLoop(_, _, _, _)
JadwalLoop(self, r, i, occupied) ==
    IF i > Len(r.requested_courses) THEN Tuple(TRUE, <<>>, self, r)
    ELSE LET course == r.requested_courses[i] IN
         IF course \notin DOMAIN self.course_slot_map
         THEN JadwalLoop(self, r, i + 1, occupied)
         ELSE LET slot == self.course_slot_map[course] IN
              IF slot \in occupied
              THEN Tuple(FALSE, JadwalMessage(course, slot), self, r)
              ELSE JadwalLoop(self, r, i + 1, occupied \cup {slot})

\* the loop without `occupied.add(slot)`
RECURSIVE JadwalLoop_NoAdd(_, _, _, _)
JadwalLoop_NoAdd(self, r, i, occupied) ==
    IF i > Len(r.requested_courses) THEN Tuple(TRUE, <<>>, self, r)
    ELSE LET course == r.requested_courses[i] IN
         IF course \notin DOMAIN self.course_slot_map
         THEN JadwalLoop_NoAdd(self, r, i + 1, occupied)
         ELSE LET slot == self.course_slot_map[course] IN
              IF slot \in occupied
              THEN Tuple(FALSE, JadwalMessage(course, slot), self, r)
              ELSE JadwalLoop_NoAdd(self, r, i + 1, occupied)

\* the slots the loop adds to occupied, in the order it adds them
RECURSIVE JadwalAdded(_, _, _, _, _)
JadwalAdded(self, r, i, occupied, added) ==
    IF i > Len(r.requested_courses) THEN added
    ELSE LET course == r.requested_courses[i] IN
         IF course \notin DOMAIN self.course_slot_map
         THEN JadwalAdded(self, r, i + 1, occupied, added)
         ELSE LET slot == self.course_slot_map[course] IN
              IF slot \in occupied THEN added
              ELSE JadwalAdded(self, r, i + 1, occupied \cup {slot},
                               Append(added, slot))

JadwalBentrokRule_validate_NoAdd(self, r) ==
    JadwalLoop_NoAdd(self, r, 1, ListToSet(self.existing_schedule \o r.schedule))

\* occupied kept in self.existing_schedule instead of a fresh set
JadwalBentrokRule_validate_KeptOnSelf(self, r) ==
    LET occupied == ListToSet(self.existing_schedule \o r.schedule)
        out      == JadwalLoop(self, r, 1, occupied)
        added    == JadwalAdded(self, r, 1, occupied, <<>>)
    IN  Tuple(out.ok, out.msg,
              [self EXCEPT !.existing_schedule = @ \o added], r)

\* occupied aliasing reg.schedule instead of a fresh set
JadwalBentrokRule_validate_OnRequest(self, r) ==
    LET occupied == ListToSet(self.existing_schedule \o r.schedule)
        out      == JadwalLoop(self, r, 1, occupied)
        added    == JadwalAdded(self, r, 1, occupied, <<>>)
    IN  Tuple(out.ok, out.msg, self, [r EXCEPT !.schedule = @ \o added])

JadwalBentrokRule_validate(self, r) ==
    JadwalLoop(self, r, 1, ListToSet(self.existing_schedule \o r.schedule))

----------------------------------------------------------------------------
(* Dynamic dispatch of rule.validate(reg) *)

Validate(rule, r) ==
    CASE rule.kind = "SksLimitRule"      -> SksLimitRule_validate(rule, r)
      [] rule.kind = "PrerequisiteRule"  -> PrerequisiteRule_validate(rule, r)
      [] rule.kind = "JadwalBentrokRule" -> JadwalBentrokRule_validate(rule, r)

----------------------------------------------------------------------------
(* Construction: the arguments a caller passes, and the objects built *)

RuleKinds == {"SksLimitRule", "PrerequisiteRule", "JadwalBentrokRule"}

SksArgs ==
    {[kind |-> "SksLimitRule", max_sks |-> m] : m \in {DefaultMaxSks, -1}}

PrereqMaps ==
    {[c \in {"CS201"} |-> <<"CS101">>],
     [c \in {"CS201", "MA101"} |->
        IF c = "CS201" THEN <<"CS101", "MA101">> ELSE <<"CS101">>]}

PrereqArgs ==
    {[kind |-> "PrerequisiteRule", prereq_map |-> m] : m \in PrereqMaps}

JadwalArgs ==
    {[kind |-> "JadwalBentrokRule", existing_schedule |-> e, course_slot_map |-> m] :
        e \in {None, Some(<<"Mon-09">>)},
        m \in {None, Some(EmptyMap), Some([c \in {"CS201"} |-> "Wed-10"])}}

RuleArgs == SksArgs \cup PrereqArgs \cup JadwalArgs

\* every list of rules with at most one rule of each class, in any order
RuleArgLists ==
    {s \in SeqsUpTo(RuleArgs, Cardinality(RuleKinds)) :
        \A i, j \in 1..Len(s) : i # j => s[i].kind # s[j].kind}

\* the service of demo_after_refactor(include_jadwal_rule=True): the three
\* rules in that order, with any of the configurations
ThreeRuleLists ==
    {s \in RuleArgLists :
        /\ Len(s) = 3
        /\ s[1].kind = "SksLimitRule" /\ s[1].max_sks = DefaultMaxSks
        /\ s[2].kind = "PrerequisiteRule"
        /\ s[3].kind = "JadwalBentrokRule"}

Construct(a) ==
    CASE a.kind = "SksLimitRule"      -> SksLimitRule_init(a.max_sks)
      [] a.kind = "PrerequisiteRule"  -> PrerequisiteRule_init(a.prereq_map)
      [] a.kind = "JadwalBentrokRule" ->
            JadwalBentrokRule_init(a.existing_schedule, a.course_slot_map)

RegistrationService_init(args) == [i \in 1..Len(args) |-> Construct(args[i])]

----------------------------------------------------------------------------
(* RegistrationService.register *)

NoResult == [ok |-> FALSE, msg |-> <<>>]

NoMemo == [has |-> FALSE, reg |-> NoReg, out |-> NoResult]

\* f"[{rule_name}] -> {'OK' if ok else 'FAIL'}{(' - ' + msg) if msg else ''}"
DiagnosticLine(rule_name, ok, msg) ==
    <<"[", rule_name, "] -> ", IF ok THEN "OK" ELSE "FAIL">>
        \o (IF msg # <<>> THEN <<" - ">> \o msg ELSE <<>>)

Call(i, out) == [rule |-> i, ok |-> out.ok, msg |-> out.msg]

InitWith(lists) ==
    /\ injected \in lists
    /\ rules = RegistrationService_init(injected)
    /\ rules0 = rules
    /\ reg = NoReg
    /\ reg0 = NoReg
    /\ pc = "idle"
    /\ idx = 1
    /\ calls = <<>>
    /\ log = <<>>
    /\ result = NoResult
    /\ memo = NoMemo

Init == InitWith(RuleArgLists)

InitHistory == InitWith(ThreeRuleLists)

\* a caller builds a request and calls service.register(reg)
StartRegister(R) ==
    /\ pc = "idle"
    /\ \E r \in R :
        /\ reg' = r
        /\ reg0' = r
    /\ pc' = "loop"
    /\ idx' = 1
    /\ calls' = <<>>
    /\ log' = <<>>
    /\ result' = NoResult
    /\ UNCHANGED <<injected, rules, rules0, memo>>

\* one iteration that goes on to the next rule after a failure
RegisterStep_NoStop ==
    /\ pc = "loop"
    /\ idx <= Len(rules)
    /\ LET out == Validate(rules[idx], reg) IN
        /\ rules' = [rules EXCEPT ![idx] = out.self]
        /\ reg' = out.reg
        /\ calls' = Append(calls, Call(idx, out))
        /\ log' = Append(log, DiagnosticLine(out.self.kind, out.ok, out.msg))
        /\ idx' = idx + 1
        /\ UNCHANGED <<pc, result>>
    /\ UNCHANGED <<injected, rules0, reg0, memo>>

\* one iteration that returns a message of its own on failure
RegisterStep_OwnMessage ==
    /\ pc = "loop"
    /\ idx <= Len(rules)
    /\ LET out == Validate(rules[idx], reg) IN
        /\ rules' = [rules EXCEPT ![idx] = out.self]
        /\ reg' = out.reg
        /\ calls' = Append(calls, Call(idx, out))
        /\ log' = Append(log, DiagnosticLine(out.self.kind, out.ok, out.msg))
        /\ IF ~out.ok
           THEN /\ result' = [ok |-> FALSE, msg |-> <<"Registrasi gagal.">>]
                /\ pc' = "done"
                /\ idx' = idx
           ELSE /\ idx' = idx + 1
                /\ UNCHANGED <<pc, result>>
    /\ UNCHANGED <<injected, rules0, reg0, memo>>

\* one iteration that prints only after the `if not ok: return`
RegisterStep_PrintLate ==
    /\ pc = "loop"
    /\ idx <= Len(rules)
    /\ LET out == Validate(rules[idx], reg) IN
        /\ rules' = [rules EXCEPT ![idx] = out.self]
        /\ reg' = out.reg
        /\ calls' = Append(calls, Call(idx, out))
        /\ IF ~out.ok
           THEN /\ result' = [ok |-> FALSE, msg |-> out.msg]
                /\ pc' = "done"
                /\ idx' = idx
                /\ log' = log
           ELSE /\ idx' = idx + 1
                /\ log' = Append(log, DiagnosticLine(out.self.kind, out.ok, out.msg))
                /\ UNCHANGED <<pc, result>>
    /\ UNCHANGED <<injected, rules0, reg0, memo>>

\* one iteration of `for rule in self.rules`: validate, print, return on failure
RegisterStep ==
    /\ pc = "loop"
    /\ idx <= Len(rules)
    /\ LET out == Validate(rules[idx], reg) IN
        /\ rules' = [rules EXCEPT ![idx] = out.self]
        /\ reg' = out.reg
        /\ calls' = Append(calls, Call(idx, out))
        /\ log' = Append(log, DiagnosticLine(out.self.kind, out.ok, out.msg))
        /\ IF ~out.ok
           THEN /\ result' = [ok |-> FALSE, msg |-> out.msg]
                /\ pc' = "done"
                /\ idx' = idx
           ELSE /\ idx' = idx + 1
                /\ UNCHANGED <<pc, result>>
    /\ UNCHANGED <<injected, rules0, reg0, memo>>

\* the loop is exhausted: return True, "Registrasi berhasil."
RegisterSuccess ==
    /\ pc = "loop"
    /\ idx > Len(rules)
    /\ result' = [ok |-> TRUE, msg |-> <<"Registrasi berhasil.">>]
    /\ pc' = "done"
    /\ UNCHANGED <<injected, rules, rules0, reg, reg0, idx, calls, log, memo>>

\* register has returned: its frame (reg, rule, ok, msg) is gone and the
\* caller discards the request
Return ==
    /\ pc = "done"
    /\ pc' = "idle"
    /\ reg' = NoReg
    /\ reg0' = NoReg
    /\ idx' = 1
    /\ calls' = <<>>
    /\ log' = <<>>
    /\ result' = NoResult
    /\ UNCHANGED <<injected, rules, rules0, memo>>

\* as Return, and the caller keeps the returned tuple with the request it made
ReturnRemember ==
    /\ pc = "done"
    /\ pc' = "idle"
    /\ memo' = [has |-> TRUE, reg |-> reg0, out |-> result]
    /\ reg' = NoReg
    /\ reg0' = NoReg
    /\ idx' = 1
    /\ calls' = <<>>
    /\ log' = <<>>
    /\ result' = NoResult
    /\ UNCHANGED <<injected, rules, rules0>>

Next ==
    \/ StartRegister(Requests)
    \/ RegisterStep
    \/ RegisterSuccess
    \/ Return

Spec == Init /\ [][Next]_vars

NextHistory ==
    \/ StartRegister(HistRequests)
    \/ RegisterStep
    \/ RegisterSuccess
    \/ Return
    \/ ReturnRemember

SpecHistory == InitHistory /\ [][NextHistory]_vars

----------------------------------------------------------------------------
(* Properties *)

CallsOf(kind) == {k \in 1..Len(calls) : rules0[calls[k].rule].kind = kind}

Sum == reg0.current_sks + reg0.requested_sks

\* C1: register calls validate on the rules in list order and stops at the
\* first failure: the k-th call is on the k-th rule, and every call but the
\* last one made so far returned success.
C1_ShortCircuit ==
    \A k \in 1..Len(calls) :
        /\ calls[k].rule = k
        /\ k < Len(calls) => calls[k].ok

C1_Witness ==
    /\ pc = "done"
    /\ Len(calls) = 1
    /\ Len(rules) = 3
    /\ ~calls[1].ok

FailingRules == {i \in 1..Len(rules0) : ~Validate(rules0[i], reg0).ok}

FirstFailing == CHOOSE i \in FailingRules : \A j \in FailingRules : i <= j

\* C2: register returns (True, "Registrasi berhasil.") exactly when every
\* rule of the list passes on the request, and otherwise (False, msg) with
\* msg the message of the first failing rule in list order.
C2_RegisterOutcome ==
    pc = "done" =>
        IF FailingRules = {}
        THEN result = [ok |-> TRUE, msg |-> <<"Registrasi berhasil.">>]
        ELSE result = [ok |-> FALSE, msg |-> Validate(rules0[FirstFailing], reg0).msg]

C2_Witness ==
    /\ pc = "done"
    /\ Cardinality(FailingRules) = 2
    /\ FirstFailing = 2
    /\ ~result.ok

\* C3: every SksLimitRule.validate call returns (True, "") when
\* current_sks + requested_sks <= max_sks and a failure whose message
\* holds the configured max_sks when the sum exceeds it.
C3_SksLimit ==
    \A k \in CallsOf("SksLimitRule") :
        LET max_sks == injected[calls[k].rule].max_sks IN
        /\ Sum <= max_sks => calls[k].ok /\ calls[k].msg = <<>>
        /\ Sum > max_sks =>
            /\ ~calls[k].ok
            /\ \E t \in 1..Len(calls[k].msg) : calls[k].msg[t] = ToString(max_sks)

\* the boundary: 18 + 6 with cap 24 has passed
C3_Witness ==
    \E k \in CallsOf("SksLimitRule") :
        /\ injected[calls[k].rule].max_sks = 24
        /\ reg0.current_sks = 18 /\ reg0.requested_sks = 6
        /\ calls[k].ok

Required(prereq_map, i) ==
    DictGet(prereq_map, reg0.requested_courses[i], <<>>)

\* the positions (i, j) of the scan at which a prerequisite is missing
Missing(prereq_map) ==
    {p \in (1..Len(reg0.requested_courses)) \X (1..Cardinality(Courses)) :
        /\ p[2] <= Len(Required(prereq_map, p[1]))
        /\ Required(prereq_map, p[1])[p[2]] \notin ListToSet(reg0.completed_courses)}

FirstMissing(prereq_map) ==
    CHOOSE p \in Missing(prereq_map) :
        \A q \in Missing(prereq_map) :
            p[1] < q[1] \/ (p[1] = q[1] /\ p[2] <= q[2])

\* C4: every PrerequisiteRule.validate call returns success exactly when no
\* prerequisite of a requested course is missing from completed_courses, and
\* otherwise fails naming the missing (prerequisite, course) pair that comes
\* first in the scan: requested courses in order, then their prerequisites
\* in order.
C4_Prerequisite ==
    \A k \in CallsOf("PrerequisiteRule") :
        LET m == injected[calls[k].rule].prereq_map IN
        IF Missing(m) = {}
        THEN calls[k].ok /\ calls[k].msg = <<>>
        ELSE LET p == FirstMissing(m) IN
             /\ ~calls[k].ok
             /\ calls[k].msg[2] = Required(m, p[1])[p[2]]
             /\ calls[k].msg[4] = reg0.requested_courses[p[1]]

\* two prerequisites of the same course are missing, so the inner order decides
C4_Witness ==
    \E k \in CallsOf("PrerequisiteRule") :
        LET m == injected[calls[k].rule].prereq_map IN
        /\ \E p, q \in Missing(m) : p[1] = q[1] /\ p[2] # q[2]
        /\ ~calls[k].ok

\* the requested courses at which the rule finds a conflict
Conflicts(self) ==
    LET m  == self.course_slot_map
        rc == reg0.requested_courses
    IN  {i \in 1..Len(rc) :
            /\ rc[i] \in DOMAIN m
            /\ \/ m[rc[i]] \in ListToSet(self.existing_schedule)
               \/ m[rc[i]] \in ListToSet(reg0.schedule)
               \/ \E j \in 1..(i - 1) : rc[j] \in DOMAIN m /\ m[rc[j]] = m[rc[i]]}

FirstConflict(self) ==
    CHOOSE i \in Conflicts(self) : \A j \in Conflicts(self) : i <= j

\* C5: every JadwalBentrokRule.validate call fails, naming the course and
\* its slot, on the first requested course whose slot in the rule's
\* course_slot_map is in existing_schedule, in the request's schedule, or is
\* the slot of an earlier requested course that has a mapping, and succeeds
\* when there is none; with existing_schedule ["Mon-09"], the default map
\* and requested_courses ["CS201", "MA101"] it fails on CS201 at Mon-09.
C5_JadwalBentrok ==
    \A k \in CallsOf("JadwalBentrokRule") :
        LET self == rules0[calls[k].rule] IN
        /\ IF Conflicts(self) = {}
           THEN calls[k].ok /\ calls[k].msg = <<>>
           ELSE LET course == reg0.requested_courses[FirstConflict(self)] IN
                /\ ~calls[k].ok
                /\ calls[k].msg[2] = course
                /\ calls[k].msg[4] = self.course_slot_map[course]
        /\ ( /\ self.existing_schedule = <<"Mon-09">>
             /\ self.course_slot_map = DefaultCourseSlotMap
             /\ reg0.requested_courses = <<"CS201", "MA101">> )
           => /\ ~calls[k].ok
              /\ calls[k].msg = JadwalMessage("CS201", "Mon-09")

\* two requested courses share a free slot and the failure names the second
C5_Witness ==
    \E k \in CallsOf("JadwalBentrokRule") :
        LET self == rules0[calls[k].rule] IN
        /\ self.existing_schedule = <<>>
        /\ reg0.schedule = <<>>
        /\ reg0.requested_courses = <<"CS101", "CS201">>
        /\ self.course_slot_map = DefaultCourseSlotMap
        /\ ~calls[k].ok
        /\ calls[k].msg[2] = "CS201"

\* C6: the course_slot_map passed to the constructor replaces the default
\* table, so a JadwalBentrokRule built with a map (the empty map too) never
\* fails on a requested course that has no entry in the map passed.
C6_InjectedMapReplacesDefault ==
    \A k \in CallsOf("JadwalBentrokRule") :
        LET arg == injected[calls[k].rule].course_slot_map IN
        (arg.some /\ ~calls[k].ok) => calls[k].msg[2] \in DOMAIN arg.val

\* C7: validation is read-only: at every point of every register call the
\* request has the fields the caller gave it, and the rule list and every
\* rule's configuration are as constructed.
C7_ReadOnly ==
    /\ reg = reg0
    /\ rules = rules0

\* JadwalBentrokRule has added a slot to occupied and register has returned
C7_Witness ==
    /\ pc = "done"
    /\ \E k \in CallsOf("JadwalBentrokRule") :
        /\ calls[k].ok
        /\ \E i \in 1..Len(reg0.requested_courses) :
            reg0.requested_courses[i] \in DOMAIN rules0[calls[k].rule].course_slot_map
    /\ reg = reg0
    /\ rules = rules0

\* C8: register keeps no state across calls: a request gets the outcome
\* that the same request got in an earlier call on the same service.
C8_Stateless ==
    (pc = "done" /\ memo.has /\ memo.reg = reg0) => result = memo.out

\* a request whose courses took slots in an earlier call succeeds again
C8_Witness ==
    /\ pc = "done"
    /\ memo.has
    /\ memo.reg = reg0
    /\ result.ok
    /\ \E i \in 1..Len(reg0.requested_courses) :
        reg0.requested_courses[i] \in DOMAIN rules0[3].course_slot_map

\* C9: a negative max_sks is rejected at construction, so validate is never
\* called on a SksLimitRule whose cap is negative.
C9_NegativeCapRejected ==
    \A k \in CallsOf("SksLimitRule") : rules0[calls[k].rule].max_sks >= 0

LastFailure ==
    IF \E k \in 1..Len(calls) : ~calls[k].ok
    THEN [ok |-> FALSE, msg |-> calls[Len(calls)].msg]
    ELSE [ok |-> TRUE, msg |-> <<"Registrasi berhasil.">>]

\* C10: one line is printed per validate call, in call order, with the
\* rule's class name and OK or FAIL as the call returned; a failing call's
\* FAIL line is there when register has returned, and the tuple returned is
\* the one the calls alone determine.
C10_DiagnosticLines ==
    /\ Len(log) = Len(calls)
    /\ \A k \in 1..Len(calls) :
        /\ k <= Len(log)
        /\ log[k][2] = rules0[calls[k].rule].kind
        /\ log[k][4] = (IF calls[k].ok THEN "OK" ELSE "FAIL")
    /\ pc = "done" => result = LastFailure

C10_Witness ==
    /\ pc = "done"
    /\ Len(log) = 2
    /\ Len(rules) = 3
    /\ log[1][4] = "OK"
    /\ log[2][4] = "FAIL"
    /\ ~result.ok

====
